---- MODULE Spec2Model ----
(***************************************************************************)
(* Model of the video catalog synchroniser (indexer.py), its schema        *)
(* (models.py) and the catalog writes of the web UI (streamlit_app.py).    *)
(*                                                                         *)
(* Python strings are sequences of one-character strings, so that the      *)
(* string functions of the code (splitext, lower, startswith, join,        *)
(* relpath, dirname, basename) are computed and not assumed.               *)
(***************************************************************************)
EXTENDS Integers, Sequences, FiniteSets, TLC

(***************************************************************************)
(* Bounds of the model.                                                    *)
(***************************************************************************)
\* how many files of Universe may appear on disk in the sync specification
NumFiles == 3
\* how many files of Universe may appear on disk in the scan specification
NumScanFiles == 12
\* largest surrogate id the store hands out before the model stops inserting
MaxId == 3
\* how many files of Universe may appear on disk in the scan with errors
NumFaultFiles == 5
\* how many files of Universe may appear on disk in the UI specification
NumUIFiles == 2

(***************************************************************************)
(* Python string functions                                                 *)
(***************************************************************************)
UpperChars == <<"A","B","C","D","E","F","G","H","I","J","K","L","M",
                "N","O","P","Q","R","S","T","U","V","W","X","Y","Z">>
LowerChars == <<"a","b","c","d","e","f","g","h","i","j","k","l","m",
                "n","o","p","q","r","s","t","u","v","w","x","y","z">>

\* str.lower() on one character
LowerChar(c) ==
    IF \E i \in 1..Len(UpperChars) : UpperChars[i] = c
    THEN LowerChars[CHOOSE i \in 1..Len(UpperChars) : UpperChars[i] = c]
    ELSE c

\* str.lower()
Lower(s) == [i \in 1..Len(s) |-> LowerChar(s[i])]

\* str.startswith(prefix)
StartsWith(s, prefix) ==
    /\ Len(s) >= Len(prefix)
    /\ SubSeq(s, 1, Len(prefix)) = prefix

\* str.rfind(c) + 1: the 1-based position of the last c in s, 0 when absent
RFind(s, c) ==
    IF \E i \in 1..Len(s) : s[i] = c
    THEN CHOOSE i \in 1..Len(s) : s[i] = c /\ \A j \in (i+1)..Len(s) : s[j] # c
    ELSE 0

\* os.path.splitext(p)[1]: the text from the last dot on, unless that dot is
\* before the last separator or only dots precede it in the file name
SplitExt(p) ==
    LET sepIndex == RFind(p, "/")
        dotIndex == RFind(p, ".")
    IN  IF /\ dotIndex > sepIndex
           /\ \E k \in (sepIndex+1)..(dotIndex-1) : p[k] # "."
        THEN SubSeq(p, dotIndex, Len(p))
        ELSE <<>>

\* os.path.splitext(p)[0]
SplitRoot(p) == SubSeq(p, 1, Len(p) - Len(SplitExt(p)))

\* os.path.basename(p)
BaseName(p) == SubSeq(p, RFind(p, "/") + 1, Len(p))

RECURSIVE RStripSep(_)
\* str.rstrip("/")
RStripSep(s) ==
    IF s # <<>> /\ s[Len(s)] = "/" THEN RStripSep(SubSeq(s, 1, Len(s) - 1)) ELSE s

\* os.path.dirname(p)
DirName(p) ==
    LET head == SubSeq(p, 1, RFind(p, "/"))
    IN  IF head # <<>> /\ \E k \in 1..Len(head) : head[k] # "/"
        THEN RStripSep(head)
        ELSE head

\* os.path.join(a, b)
PathJoin(a, b) ==
    IF b # <<>> /\ b[1] = "/" THEN b
    ELSE IF a = <<>> \/ a[Len(a)] = "/" THEN a \o b
    ELSE a \o <<"/">> \o b

RECURSIVE SplitSep(_)
\* [x for x in p.split("/") if x]
SplitSep(p) ==
    IF p = <<>> THEN <<>>
    ELSE LET i == RFind(p, "/")
             last == SubSeq(p, i + 1, Len(p))
             rest == IF i = 0 THEN <<>> ELSE SplitSep(SubSeq(p, 1, i - 1))
         IN  IF last = <<>> THEN rest ELSE Append(rest, last)

RECURSIVE JoinSep(_)
\* "/".join(parts)
JoinSep(parts) ==
    IF parts = <<>> THEN <<>>
    ELSE IF Len(parts) = 1 THEN parts[1]
    ELSE JoinSep(SubSeq(parts, 1, Len(parts) - 1)) \o <<"/">> \o parts[Len(parts)]

\* len(os.path.commonprefix([a, b])) on component lists
CommonPrefixLen(a, b) ==
    LET m == IF Len(a) < Len(b) THEN Len(a) ELSE Len(b)
        same(k) == \A j \in 1..k : a[j] = b[j]
    IN  CHOOSE k \in 0..m : same(k) /\ (k = m \/ a[k+1] # b[k+1])

\* os.path.relpath(path, start) for absolute paths without "." and ".." parts
RelPath(path, start) ==
    LET startList == SplitSep(start)
        pathList == SplitSep(path)
        i == CommonPrefixLen(startList, pathList)
        relList == [k \in 1..(Len(startList) - i) |-> <<".", ".">>]
                       \o SubSeq(pathList, i + 1, Len(pathList))
    IN  IF relList = <<>> THEN <<".">> ELSE JoinSep(relList)

(***************************************************************************)
(* Configuration                                                           *)
(***************************************************************************)
MEDIA_DIR == <<"/","m","e","d","i","a","/","w","e","z","t","e","r","m">>

VIDEO_EXTENSIONS ==
    { <<".","m","p","4">>, <<".","m","k","v">>, <<".","a","v","i">>,
      <<".","m","o","v">>, <<".","w","m","v">>, <<".","f","l","v">>,
      <<".","w","e","b","m">>, <<".","m","p","e","g">>, <<".","m","p","g">> }

SKIP_FOLDERS ==
    { <<"@","e","a","D","i","r">>,
      <<"$","R","E","C","Y","C","L","E",".","B","I","N">>,
      <<"S","y","s","t","e","m"," ","V","o","l","u","m","e"," ",
        "I","n","f","o","r","m","a","t","i","o","n">>,
      <<".","D","S","_","S","t","o","r","e">>,
      <<".","t","h","u","m","b","n","a","i","l","s">>,
      <<".","r","e","c","y","c","l","e">> }

(***************************************************************************)
(* The disk: a set of files, each the sequence of names from the media     *)
(* root down to the file (directories first, the file's name last).        *)
(***************************************************************************)
Universe ==
    << << <<"A">>, <<"1",".","m","p","4">> >>,
       << <<"r",".","M","K","V">> >>,
       << <<"A">>, <<".","_","1",".","m","p","4">> >>,
       << <<"@","e","a","D","i","r">>, <<"h",".","m","p","4">> >>,
       << <<"B">>, <<"2",".","a","v","i">> >>,
       << <<"A">>, <<"@","e","a","D","i","r">>, <<"B">>, <<"3",".","m","p","4">> >>,
       << <<"A">>, <<"@","e","a","d","i","r">>, <<"4",".","m","o","v">> >>,
       << <<"B">>, <<"n",".","t","x","t">> >>,
       << <<".","D","S","_","S","t","o","r","e">> >>,
       << <<".","m","p","4">> >>,
       << <<".","_","x">>, <<"6",".","M","p","G">> >>,
       << <<".","r","e","c","y","c","l","e">>, <<"5",".","w","e","b","m">> >>,
       << <<"A">>, <<"B">>, <<"c",".","d",".","f","l","v">> >> >>

Min(a, b) == IF a < b THEN a ELSE b

FilesUpTo(n) == { Universe[i] : i \in 1..Min(n, Len(Universe)) }

IsPrefix(p, f) == Len(p) <= Len(f) /\ SubSeq(f, 1, Len(p)) = p

\* the `files` list os.walk yields for the directory `prefix`
WalkFiles(d, prefix) ==
    { f[Len(prefix) + 1] : f \in { g \in d : IsPrefix(prefix, g) /\ Len(g) = Len(prefix) + 1 } }

\* the `dirs` list os.walk yields for the directory `prefix`
WalkDirs(d, prefix) ==
    { f[Len(prefix) + 1] : f \in { g \in d : IsPrefix(prefix, g) /\ Len(g) > Len(prefix) + 1 } }

\* Filter 3 of the scan: junk files
IsJunk(file) ==
    StartsWith(file, <<".", "_">>) \/ file = <<".","D","S","_","S","t","o","r","e">>

\* Filter 2 of the scan: the extension allow-list
HasVideoExtension(file) == Lower(SplitExt(file)) \in VIDEO_EXTENSIONS

\* mutant: the skip names compared without regard to case
KeptDirsNoCase(dirs) ==
    { dn \in dirs : Lower(dn) \notin { Lower(sk) : sk \in SKIP_FOLDERS } }

\* Filter 1 of the scan: dirs[:] = [d for d in dirs if d not in SKIP_FOLDERS]
KeptDirs(dirs) == { dn \in dirs : dn \notin SKIP_FOLDERS }

\* the paths the loop body adds for one (root, dirs, files) of the walk
FilesAdded(root, files) ==
    { RelPath(PathJoin(root, file), MEDIA_DIR) :
        file \in { g \in files : ~IsJunk(g) /\ HasVideoExtension(g) } }

RECURSIVE Walk(_, _, _)
\* os.walk(top, topdown=True) with the loop body of scan_disk_paths applied
\* to each directory: `root` is the directory's path string, `prefix` the
\* same directory as names below the media root
Walk(d, root, prefix) ==
    FilesAdded(root, WalkFiles(d, prefix))
        \cup UNION { Walk(d, PathJoin(root, dn), Append(prefix, dn)) :
                        dn \in KeptDirs(WalkDirs(d, prefix)) }

\* scan_disk_paths(): os.walk swallows the listing error of a top that is
\* not a directory (onerror=None) and yields nothing
scan_disk_paths(d, rootIsDir) ==
    IF rootIsDir THEN Walk(d, MEDIA_DIR, <<>>) ELSE {}

\* os.path.join and os.path.relpath on str arguments
NoFaults == [join |-> {}, relpath |-> {}]

RECURSIVE Perms(_)
\* the orders in which os.scandir may list a set of names
Perms(S) ==
    IF S = {} THEN {<<>>}
    ELSE UNION { { <<x>> \o p : p \in Perms(S \ {x}) } : x \in S }

RECURSIVE WalkSeqs(_, _, _)
RECURSIVE WalkBelow(_, _, _, _)
\* the (root, file) pairs that reach the try block, in an order os.walk can
\* visit them: the files of a directory, then each kept subdirectory in turn
WalkSeqs(d, root, prefix) ==
    LET files == { g \in WalkFiles(d, prefix) : ~IsJunk(g) /\ HasVideoExtension(g) }
        here == { [i \in 1..Len(p) |->
                     [root |-> root, file |-> p[i], at |-> Append(prefix, p[i])]] :
                  p \in Perms(files) }
    IN  UNION { { a \o b : a \in here, b \in WalkBelow(d, root, prefix, o) } :
                o \in Perms(KeptDirs(WalkDirs(d, prefix))) }

WalkBelow(d, root, prefix, dirOrder) ==
    IF dirOrder = <<>> THEN {<<>>}
    ELSE LET dn == Head(dirOrder)
         IN  { a \o b : a \in WalkSeqs(d, PathJoin(root, dn), Append(prefix, dn)),
                        b \in WalkBelow(d, root, prefix, Tail(dirOrder)) }

RECURSIVE ScanLoop(_, _, _, _)
\* the try/except of the loop body over the visited files: `bound` tells
\* whether the local full_path has been assigned; the handler formats
\* full_path, so an error of os.path.join before any assignment makes the
\* handler itself raise UnboundLocalError, which leaves scan_disk_paths
ScanLoop(items, paths, bound, flt) ==
    IF items = <<>> THEN [done |-> TRUE, paths |-> paths, raised |-> "none"]
    ELSE LET it == Head(items)
         IN  IF it.at \in flt.join
             THEN IF bound THEN ScanLoop(Tail(items), paths, bound, flt)
                  ELSE [done |-> TRUE, paths |-> {}, raised |-> "UnboundLocalError"]
             ELSE IF it.at \in flt.relpath
             THEN ScanLoop(Tail(items), paths, TRUE, flt)
             ELSE ScanLoop(Tail(items),
                           paths \cup {RelPath(PathJoin(it.root, it.file), MEDIA_DIR)},
                           TRUE, flt)

\* the outcomes of scan_disk_paths() when processing the files of `flt` raises
ScanOutcomes(d, isDir, flt) ==
    IF isDir
    THEN { ScanLoop(s, {}, FALSE, flt) : s \in WalkSeqs(d, MEDIA_DIR, <<>>) }
    ELSE { [done |-> TRUE, paths |-> {}, raised |-> "none"] }

(***************************************************************************)
(* The catalog: the rows of table `videos`                                 *)
(***************************************************************************)
\* the indexer process whose run is followed step by step
Runs == {"r1"}

UITitles == { <<"T">> }
UITags == { <<"g">> }

\* mutant: the title keeps the extension
VideoTitleWithExt(path, id) ==
    [ id |-> id,
      title |-> BaseName(path),
      path |-> path,
      container_folder |-> DirName(path),
      tags |-> <<>> ]

\* a row built by Video(title=..., path=..., container_folder=..., tags="")
\* and given the id `id` by the store
Video(path, id) ==
    [ id |-> id,
      title |-> SplitRoot(BaseName(path)),
      path |-> path,
      container_folder |-> DirName(path),
      tags |-> <<>> ]

\* the values of column `path` of a set of rows
Paths(rows) == { v.path : v \in rows }

\* set(row[0] for row in session.query(Video.path).all())
get_db_paths(rows) == Paths(rows)

\* mutant: every scanned path is added again
paths_to_add_all(diskPaths, dbPaths) == diskPaths

\* mutant: the operands of the difference swapped
paths_to_remove_swapped(diskPaths, dbPaths) == diskPaths \ dbPaths

\* mutant: every loaded path is removed
paths_to_remove_all(diskPaths, dbPaths) == dbPaths

\* Step 3 of sync_database
paths_to_add(diskPaths, dbPaths) == diskPaths \ dbPaths
paths_to_remove(diskPaths, dbPaths) == dbPaths \ diskPaths

\* INTEGER PRIMARY KEY: a new row gets the largest id of the table plus one
MaxRowId(rows) ==
    IF rows = {} THEN 0 ELSE CHOOSE n \in { v.id : v \in rows } : \A w \in rows : w.id <= n

\* the orders in which a batch of paths can reach the store (the batch is
\* built by iterating a Python set): one-to-one maps onto 1..len(batch)
InsertOrders(batch) ==
    { f \in [batch -> 1..Cardinality(batch)] :
        \A p, q \in batch : p # q => f[p] # f[q] }

\* the rows the INSERTs of one flush add to the table `rows`
InsertedRows(rows, batch, order) ==
    { Video(p, MaxRowId(rows) + order[p]) : p \in batch }

\* mutant: the column without its unique constraint
InsertAlwaysOk(rows, batch) == TRUE

\* unique=True on Video.path: the INSERT of a path the table holds fails
InsertOk(rows, batch) == batch \cap Paths(rows) = {}

\* the table inside the transaction when a flush raises IntegrityError: the
\* rows that did not collide may already have been inserted
PartialInsert(rows, batch, order) ==
    rows \cup InsertedRows(rows, { p \in batch : p \notin Paths(rows) },
                           [p \in { q \in batch : q \notin Paths(rows) } |-> order[p]])

\* mutant: the bulk DELETE matches no row
DeleteNoRow(rows, paths) == rows

\* mutant: the filter compares with one path of the set instead of all
DeleteOneOnly(rows, paths) ==
    IF paths = {} THEN rows
    ELSE { v \in rows : v.path # (CHOOSE p \in paths : TRUE) }

\* session.query(Video).filter(Video.path.in_(paths)).delete()
DeleteByPaths(rows, paths) == { v \in rows : v.path \notin paths }

\* mutant: the commit is lost
CommitLost(committed, inTx) == committed

\* mutant: the except branch keeps what the transaction had written
RollbackKeeps(committed, inTx) == inTx

\* get_session, normal exit: session.commit() makes the transaction's table
\* the committed one
CommitTo(committed, inTx) == inTx

\* get_session, except branch: session.rollback() keeps the committed table
RollbackTo(committed, inTx) == committed

\* mutant: the total taken from the loaded set
SyncSummaryDbTotal(diskPaths, dbPaths) ==
    [ added |-> Cardinality(paths_to_add(diskPaths, dbPaths)),
      removed |-> Cardinality(paths_to_remove(diskPaths, dbPaths)),
      total |-> Cardinality(dbPaths) ]

\* the "--- Sync Summary ---" lines
SyncSummary(diskPaths, dbPaths) ==
    [ added |-> Cardinality(paths_to_add(diskPaths, dbPaths)),
      removed |-> Cardinality(paths_to_remove(diskPaths, dbPaths)),
      total |-> Cardinality(diskPaths) ]

NoReport == [ added |-> -1, removed |-> -1, total |-> -1 ]

\* mutant: the UPDATE without its WHERE clause
UpdateEveryRow(rows, id, title, tags) ==
    { [v EXCEPT !.title = title, !.tags = tags] : v \in rows }

\* the UPDATE of the Save button
UpdateById(rows, id, title, tags) ==
    { IF v.id = id THEN [v EXCEPT !.title = title, !.tags = tags] ELSE v : v \in rows }

\* the DELETE of the Delete button
DeleteById(rows, id) == { v \in rows : v.id # id }

\* Python's None: a value that is no str (a str is a sequence of characters)
None == << "None" >>

\* the folders a file of the UI specification's disk can be in
Folders == { DirName(JoinSep(f)) : f \in FilesUpTo(NumUIFiles) }

\* the search texts typed into a search box
Queries == { <<>>, <<"t">> }

\* column.ilike("%query%"): the lower-cased text holds the lower-cased query
ILike(text, query) ==
    \E i \in 0..(Len(text) - Len(query)) :
        SubSeq(Lower(text), i + 1, i + Len(query)) = Lower(query)

\* search_topic_folders(query): the folders with their video counts, of all
\* rows or of the rows whose title, tags or path match (the list's order is
\* left out)
search_topic_folders(rows, query) ==
    LET found == IF query = <<>> THEN rows
                 ELSE { v \in rows : \/ ILike(v.title, query)
                                     \/ ILike(v.tags, query)
                                     \/ ILike(v.path, query) }
    IN  { [ container_folder |-> fd,
            video_count |-> Cardinality({ v \in found : v.container_folder = fd }) ] :
          fd \in { v.container_folder : v \in found } }

\* get_videos_in_folder(folder_path, search_query): the rows of the folder,
\* or those of them whose title or tags match, as dicts (the list's order is
\* left out)
get_videos_in_folder(rows, folder_path, search_query) ==
    { [ id |-> v.id, title |-> v.title, path |-> v.path, tags |-> v.tags ] :
      v \in { w \in rows :
                /\ w.container_folder = folder_path
                /\ \/ search_query = <<>>
                   \/ ILike(w.title, search_query)
                   \/ ILike(w.tags, search_query) } }

\* the cached call the router's view makes
CacheKey(v, folder, query) ==
    IF v = "home"
    THEN [ fn |-> "search_topic_folders", folder_path |-> <<>>, query |-> query ]
    ELSE [ fn |-> "get_videos_in_folder", folder_path |-> folder, query |-> query ]

\* the function body behind a cached call
RunQuery(key, rows) ==
    IF key.fn = "search_topic_folders"
    THEN search_topic_folders(rows, key.query)
    ELSE get_videos_in_folder(rows, key.folder_path, key.query)

\* @st.cache_data: the stored value of a call with the same arguments, or
\* else the value the function computes now
CacheLookup(c, key, rows) ==
    IF \E e \in c : e.key = key
    THEN (CHOOSE e \in c : e.key = key).value
    ELSE RunQuery(key, rows)

\* @st.cache_data: a computed value is stored under its arguments
CacheStore(c, key, rows) ==
    IF \E e \in c : e.key = key THEN c
    ELSE c \cup { [ key |-> key, value |-> RunQuery(key, rows) ] }

(***************************************************************************)
(* State                                                                   *)
(***************************************************************************)
VARIABLES
    disk,        \* the files below the media root
    rootIsDir,   \* os.path.isdir(MEDIA_DIR)
    catalog,     \* the committed rows of table videos
    lock,        \* the run holding SQLite's write lock, or "none"
    pc,          \* where each run of the indexer is
    db_paths,    \* each run's db_paths
    disk_paths,  \* each run's disk_paths
    tx,          \* the table as seen inside each run's open transaction
    err,         \* the error that ended each run, or "none"
    report,      \* the summary each run printed
    nIns,        \* rows each run inserted in its transaction
    nDel,        \* rows each run deleted in its transaction
    changed,     \* history: a step of the run changed the committed table
    interfered,  \* history: another writer changed the table since the run's Load
    rootAtScan,  \* history: whether the root was a directory at the run's Scan
    calm,        \* history: the disk did not change since the run's Scan
    second,      \* history: the run follows a quiet sync of the same disk
    stable,      \* history: table and disk are as a quiet sync left them
    scanResult,  \* the result of a stand-alone scan
    faults,      \* the files whose processing raises in a stand-alone scan
    provenance,  \* history: the paths added by a committed sync run and not
                 \* in the removal set of a committed sync run since
    lastSaved,   \* history: the row the UI's latest Save wrote, until a run
                 \* with its path in the removal set commits or another
                 \* writer removes it
    savedInRun,  \* history: the UI's latest Save was committed between the
                 \* run's Load and its commit
    recording,   \* the history the behaviour records: "provenance",
                 \* "saves" (lastSaved and savedInRun) or "none"
    view,            \* st.session_state.view
    current_folder,  \* st.session_state.current_folder
    video_to_play,   \* st.session_state.video_to_play
    search,          \* the text of the search box of the rendered view
    cache,           \* the entries of st.cache_data
    shown,           \* the list the last run of the script rendered
    syncSinceClear   \* history: a sync run changed the table since the UI
                     \* last cleared the cache

vars == << disk, rootIsDir, catalog, lock, pc, db_paths, disk_paths, tx, err,
           report, nIns, nDel, changed, interfered, rootAtScan, calm,
           second, stable, scanResult, faults, provenance, lastSaved,
           savedInRun, recording, view, current_folder, video_to_play, search, cache, shown,
           syncSinceClear >>

scanVars == << scanResult, faults, recording >>
savedVars == << lastSaved, savedInRun >>
navVars == << view, current_folder, video_to_play, search >>
uiVars == << navVars, cache, shown, syncSinceClear >>
NoRow == [ id |-> 0 ]
envVars == << disk, rootIsDir >>
histVars == << changed, interfered, rootAtScan, calm, second, stable >>
txVars == << tx, nIns, nDel, lock >>

toAdd(r) == paths_to_add(disk_paths[r], db_paths[r])
toRemove(r) == paths_to_remove(disk_paths[r], db_paths[r])

\* the run has loaded the table and has not been restarted
Active(r) == pc[r] \in {"scan", "apply", "delete", "summary", "commit", "done", "failed"}
\* the run is inside sync_database
Running(r) == pc[r] \in {"load", "scan", "apply", "delete", "summary", "commit"}

\* the catalog after create_db_and_tables, no indexer started
Fresh ==
    /\ catalog = {}
    /\ lock = "none"
    /\ pc = [r \in Runs |-> "idle"]
    /\ db_paths = [r \in Runs |-> {}]
    /\ disk_paths = [r \in Runs |-> {}]
    /\ tx = [r \in Runs |-> {}]
    /\ err = [r \in Runs |-> "none"]
    /\ report = [r \in Runs |-> NoReport]
    /\ nIns = [r \in Runs |-> 0]
    /\ nDel = [r \in Runs |-> 0]
    /\ changed = [r \in Runs |-> FALSE]
    /\ interfered = [r \in Runs |-> FALSE]
    /\ rootAtScan = [r \in Runs |-> "unset"]
    /\ calm = [r \in Runs |-> FALSE]
    /\ second = [r \in Runs |-> FALSE]
    /\ stable = FALSE
    /\ scanResult = [done |-> FALSE, paths |-> {}, raised |-> "none"]
    /\ provenance = {}
    /\ lastSaved = NoRow
    /\ savedInRun = [r \in Runs |-> FALSE]
    /\ view = "home"
    /\ current_folder = None
    /\ video_to_play = None
    /\ search = <<>>
    /\ shown = {}
    /\ syncSinceClear = FALSE

Init ==
    /\ disk \in SUBSET FilesUpTo(NumFiles)
    /\ rootIsDir = TRUE
    /\ faults = NoFaults
    /\ cache = {}
    /\ recording = "none"
    /\ Fresh

\* history of a committed sync run with the given removal and addition sets
SyncRecorded(removes, adds) ==
    /\ provenance' = IF recording = "provenance"
                     THEN (provenance \ removes) \cup adds
                     ELSE provenance
    /\ lastSaved' = IF lastSaved # NoRow /\ lastSaved.path \in removes
                    THEN NoRow ELSE lastSaved
    /\ UNCHANGED savedInRun

\* history of a committed Save of the row with the given id
SaveRecorded(id) ==
    IF recording = "saves" /\ \E v \in catalog' : v.id = id
    THEN /\ lastSaved' = CHOOSE v \in catalog' : v.id = id
         /\ savedInRun' = [q \in Runs |->
                              pc[q] \in {"scan", "apply", "delete", "summary", "commit"}]
    ELSE UNCHANGED savedVars

\* history of a committed Delete of the row with the given id
DeleteRecorded(id) ==
    /\ lastSaved' = IF lastSaved.id = id THEN NoRow ELSE lastSaved
    /\ UNCHANGED savedInRun

\* bookkeeping of a step by `who` that leaves the committed table as `cat`
Touch(who, cat) ==
    interfered' = [q \in Runs |->
                     interfered[q] \/ (q # who /\ Active(q) /\ cat # catalog)]

(***************************************************************************)
(* The environment: the media volume                                       *)
(***************************************************************************)
DiskChanged ==
    /\ calm' = [q \in Runs |-> FALSE]
    /\ second' = [q \in Runs |-> FALSE]
    /\ stable' = FALSE
    /\ UNCHANGED << catalog, pc, db_paths, disk_paths, err, report, txVars,
                    changed, interfered, rootAtScan, scanVars, provenance, savedVars, uiVars >>

\* a file appears below the media root
CreateFile(f) ==
    /\ rootIsDir
    /\ f \notin disk
    /\ disk' = disk \cup {f}
    /\ UNCHANGED rootIsDir
    /\ DiskChanged

\* a file disappears from below the media root
RemoveFile(f) ==
    /\ rootIsDir
    /\ f \in disk
    /\ disk' = disk \ {f}
    /\ UNCHANGED rootIsDir
    /\ DiskChanged

\* the media root stops being a directory (the volume is unmounted, the
\* directory removed)
RootGoes ==
    /\ rootIsDir
    /\ rootIsDir' = FALSE
    /\ UNCHANGED disk
    /\ DiskChanged

\* the media root is a directory again
RootReturns ==
    /\ ~rootIsDir
    /\ rootIsDir' = TRUE
    /\ UNCHANGED disk
    /\ DiskChanged

(***************************************************************************)
(* The indexer, indexer.py                                                 *)
(***************************************************************************)
\* __main__: the startup check, then sync_database()
Main(r) ==
    /\ pc[r] = "idle"
    /\ pc' = [pc EXCEPT ![r] = IF rootIsDir THEN "load" ELSE "exit1"]
    /\ UNCHANGED << envVars, catalog, db_paths, disk_paths, err, report, txVars,
                    histVars, scanVars, provenance, savedVars, uiVars >>

\* Step 1: db_paths = get_db_paths(session)
Load(r) ==
    /\ pc[r] = "load"
    /\ db_paths' = [db_paths EXCEPT ![r] = get_db_paths(catalog)]
    /\ interfered' = [interfered EXCEPT ![r] = FALSE]
    /\ second' = [second EXCEPT ![r] = stable]
    /\ savedInRun' = [savedInRun EXCEPT ![r] = FALSE]
    /\ pc' = [pc EXCEPT ![r] = "scan"]
    /\ UNCHANGED << envVars, catalog, disk_paths, err, report, txVars,
                    changed, rootAtScan, calm, stable, scanVars, provenance, lastSaved, uiVars >>

\* Step 2: disk_paths = scan_disk_paths()
Scan(r) ==
    /\ pc[r] = "scan"
    /\ disk_paths' = [disk_paths EXCEPT ![r] = scan_disk_paths(disk, rootIsDir)]
    /\ rootAtScan' = [rootAtScan EXCEPT ![r] = IF rootIsDir THEN "dir" ELSE "missing"]
    /\ calm' = [calm EXCEPT ![r] = TRUE]
    /\ pc' = [pc EXCEPT ![r] = "apply"]
    /\ UNCHANGED << envVars, catalog, db_paths, err, report, txVars,
                    changed, interfered, second, stable, scanVars, provenance, savedVars, uiVars >>

\* the run ends with the error `e`: get_session rolls back and re-raises
Fails(r, e, inTx) ==
    /\ catalog' = RollbackTo(catalog, inTx)
    /\ pc' = [pc EXCEPT ![r] = "failed"]
    /\ err' = [err EXCEPT ![r] = e]
    /\ tx' = [tx EXCEPT ![r] = {}]
    /\ lock' = IF lock = r THEN "none" ELSE lock
    /\ changed' = [changed EXCEPT ![r] = (catalog' # catalog)]
    /\ Touch(r, catalog')
    /\ stable' = (stable /\ catalog' = catalog)
    /\ UNCHANGED << envVars, db_paths, disk_paths, report, nIns, nDel,
                    rootAtScan, calm, second, scanVars, provenance, savedVars, uiVars >>

\* Step 5 with pending new rows: the DELETE query first flushes the session,
\* which sends the INSERTs of Step 4
Insert(r) ==
    /\ pc[r] = "apply"
    /\ toAdd(r) # {}
    /\ toRemove(r) # {}
    /\ lock = "none"
    /\ \E order \in InsertOrders(toAdd(r)) :
         IF InsertOk(catalog, toAdd(r))
         THEN /\ MaxRowId(catalog) + Cardinality(toAdd(r)) <= MaxId
              /\ tx' = [tx EXCEPT ![r] = catalog \cup InsertedRows(catalog, toAdd(r), order)]
              /\ nIns' = [nIns EXCEPT ![r] = Cardinality(toAdd(r))]
              /\ lock' = r
              /\ pc' = [pc EXCEPT ![r] = "delete"]
              /\ UNCHANGED << envVars, catalog, db_paths, disk_paths, err, report,
                              nDel, histVars, scanVars, provenance, savedVars, uiVars >>
         ELSE Fails(r, "IntegrityError", PartialInsert(catalog, toAdd(r), order))

\* Step 5: the bulk DELETE of the rows whose path is in paths_to_remove
Delete(r) ==
    /\ \/ pc[r] = "delete" /\ lock = r
       \/ pc[r] = "apply" /\ toAdd(r) = {} /\ toRemove(r) # {} /\ lock = "none"
    /\ LET table == IF lock = r THEN tx[r] ELSE catalog
           kept == DeleteByPaths(table, toRemove(r))
       IN  /\ tx' = [tx EXCEPT ![r] = kept]
           /\ nDel' = [nDel EXCEPT ![r] = Cardinality(table) - Cardinality(kept)]
    /\ lock' = r
    /\ pc' = [pc EXCEPT ![r] = "summary"]
    /\ UNCHANGED << envVars, catalog, db_paths, disk_paths, err, report, nIns,
                    histVars, scanVars, provenance, savedVars, uiVars >>

\* the summary lines, printed inside the `with` block before the commit
Summary(r) ==
    /\ \/ pc[r] = "summary"
       \/ pc[r] = "apply" /\ toRemove(r) = {}
    /\ report' = [report EXCEPT ![r] = SyncSummary(disk_paths[r], db_paths[r])]
    /\ pc' = [pc EXCEPT ![r] = "commit"]
    /\ UNCHANGED << envVars, catalog, db_paths, disk_paths, err, txVars,
                    histVars, scanVars, provenance, savedVars, uiVars >>

\* bookkeeping of the commit of run r leaving the committed table as `cat`
Committed(r, cat) ==
    /\ catalog' = cat
    /\ pc' = [pc EXCEPT ![r] = "done"]
    /\ tx' = [tx EXCEPT ![r] = {}]
    /\ lock' = IF lock = r THEN "none" ELSE lock
    /\ changed' = [changed EXCEPT ![r] = (cat # catalog)]
    /\ Touch(r, cat)
    /\ stable' = IF calm[r] /\ ~interfered[r] THEN TRUE ELSE (stable /\ cat = catalog)
    /\ SyncRecorded(toRemove(r), toAdd(r))
    /\ UNCHANGED << envVars, db_paths, disk_paths, err, report, nDel,
                    rootAtScan, calm, second, scanVars, uiVars >>

\* get_session's session.commit() of a transaction that has written
CommitWritten(r) ==
    /\ pc[r] = "commit"
    /\ lock = r
    /\ UNCHANGED nIns
    /\ Committed(r, CommitTo(catalog, tx[r]))

\* get_session's session.commit() with new rows still pending (nothing was
\* removed, so nothing flushed them): the commit flushes the INSERTs first
CommitPending(r) ==
    /\ pc[r] = "commit"
    /\ lock = "none"
    /\ toAdd(r) # {}
    /\ toRemove(r) = {}
    /\ \E order \in InsertOrders(toAdd(r)) :
         IF InsertOk(catalog, toAdd(r))
         THEN /\ MaxRowId(catalog) + Cardinality(toAdd(r)) <= MaxId
              /\ nIns' = [nIns EXCEPT ![r] = Cardinality(toAdd(r))]
              /\ Committed(r, CommitTo(catalog,
                                 catalog \cup InsertedRows(catalog, toAdd(r), order)))
         ELSE Fails(r, "IntegrityError", PartialInsert(catalog, toAdd(r), order))

\* get_session's session.commit() of a transaction that wrote nothing
CommitNothing(r) ==
    /\ pc[r] = "commit"
    /\ lock # r
    /\ toAdd(r) = {}
    /\ toRemove(r) = {}
    /\ UNCHANGED nIns
    /\ Committed(r, CommitTo(catalog, catalog))

\* an exception anywhere inside the `with` block or its commit (the storage
\* fails, the database is locked by another connection), or the process is
\* killed: the open transaction is rolled back
Abort(r) ==
    /\ Running(r)
    /\ Fails(r, "Aborted", IF lock = r THEN tx[r] ELSE catalog)

\* the indexer is started again
Restart(r) ==
    /\ pc[r] \in {"done", "failed", "exit1"}
    /\ pc' = [pc EXCEPT ![r] = "idle"]
    /\ db_paths' = [db_paths EXCEPT ![r] = {}]
    /\ disk_paths' = [disk_paths EXCEPT ![r] = {}]
    /\ err' = [err EXCEPT ![r] = "none"]
    /\ report' = [report EXCEPT ![r] = NoReport]
    /\ nIns' = [nIns EXCEPT ![r] = 0]
    /\ nDel' = [nDel EXCEPT ![r] = 0]
    /\ changed' = [changed EXCEPT ![r] = FALSE]
    /\ interfered' = [interfered EXCEPT ![r] = FALSE]
    /\ rootAtScan' = [rootAtScan EXCEPT ![r] = "unset"]
    /\ calm' = [calm EXCEPT ![r] = FALSE]
    /\ second' = [second EXCEPT ![r] = FALSE]
    /\ UNCHANGED << envVars, catalog, tx, lock, stable, scanVars, provenance, savedVars, uiVars >>

(***************************************************************************)
(* The catalog writes of the UI, streamlit_app.py                          *)
(***************************************************************************)
\* bookkeeping of a committed write of the UI leaving the table as `cat`
UICommitted(cat) ==
    /\ catalog' = cat
    /\ Touch("ui", cat)
    /\ stable' = (stable /\ cat = catalog)
    /\ UNCHANGED << envVars, pc, db_paths, disk_paths, err, report, txVars,
                    changed, rootAtScan, calm, second, scanVars, provenance >>

\* a committed write of a UI session whose page is not followed
UIWrote(cat) == UICommitted(cat) /\ UNCHANGED uiVars

\* mutant: the UPDATE commits while a sync run holds the write lock
UISaveUnlocked(id, title, tags) ==
    /\ UIWrote(CommitTo(catalog, UpdateById(catalog, id, title, tags)))
    /\ SaveRecorded(id)

\* the Save button of a video card: UPDATE ... WHERE id = :id, committed
UISave(id, title, tags) ==
    /\ lock = "none"
    /\ UIWrote(CommitTo(catalog, UpdateById(catalog, id, title, tags)))
    /\ SaveRecorded(id)

\* the Delete button of a video card: DELETE ... WHERE id = :id, committed
UIDelete(id) ==
    /\ lock = "none"
    /\ UIWrote(CommitTo(catalog, DeleteById(catalog, id)))
    /\ DeleteRecorded(id)

\* a whole run of a second indexer process (startup check, Load, Scan, Diff,
\* INSERTs, DELETE, commit)
SyncRun ==
    /\ lock = "none"
    /\ rootIsDir
    /\ LET dbPaths == get_db_paths(catalog)
           diskPaths == scan_disk_paths(disk, rootIsDir)
           adds == paths_to_add(diskPaths, dbPaths)
           removes == paths_to_remove(diskPaths, dbPaths)
       IN  /\ MaxRowId(catalog) + Cardinality(adds) <= MaxId
           /\ \E order \in InsertOrders(adds) :
                 /\ catalog' = CommitTo(catalog,
                        DeleteByPaths(catalog \cup InsertedRows(catalog, adds, order),
                                      removes))
                 /\ Touch("other", catalog')
           /\ SyncRecorded(removes, adds)
    /\ stable' = TRUE
    /\ UNCHANGED << envVars, pc, db_paths, disk_paths, err, report, txVars,
                    changed, rootAtScan, calm, second, scanVars >>

\* such a run between two steps of the run followed here
OtherSync == SyncRun /\ UNCHANGED uiVars

(***************************************************************************)
(* One browser session of the UI, streamlit_app.py: every event runs the   *)
(* script again, which renders the view                                    *)
(***************************************************************************)
\* the router: the view's cached call, rendered
Render(v, folder, query, c, rows) ==
    /\ cache' = CacheStore(c, CacheKey(v, folder, query), rows)
    /\ shown' = CacheLookup(c, CacheKey(v, folder, query), rows)

\* the events of the page leave the indexer and the disk alone
UIOnly ==
    UNCHANGED << envVars, pc, db_paths, disk_paths, err, report, txVars,
                 histVars, scanVars, provenance >>

\* a browser session starts: the session state is initialised, home is rendered
Connect ==
    /\ view' = "home"
    /\ current_folder' = None
    /\ video_to_play' = None
    /\ search' = <<>>
    /\ Render("home", None, <<>>, cache, catalog)
    /\ UIOnly
    /\ UNCHANGED << catalog, savedVars, syncSinceClear >>

\* a text is typed into the search box of the view
SearchInput(q) ==
    /\ q # search
    /\ search' = q
    /\ Render(view, current_folder, q, cache, catalog)
    /\ UIOnly
    /\ UNCHANGED << catalog, savedVars, syncSinceClear, view, current_folder,
                    video_to_play >>

\* the Open button of the card of a folder of the shown list
ClickOpen(folder) ==
    /\ view = "home"
    /\ \E folder_data \in shown : folder_data.container_folder = folder
    /\ view' = "folder"
    /\ current_folder' = folder
    /\ video_to_play' = None
    /\ search' = <<>>
    /\ syncSinceClear' = FALSE
    /\ Render("folder", folder, <<>>, {}, catalog)
    /\ UIOnly
    /\ UNCHANGED << catalog, savedVars >>

\* mutant: Back leaves the player as it is
ClickBackKeepsPlayer ==
    /\ view = "folder"
    /\ view' = "home"
    /\ current_folder' = None
    /\ video_to_play' = video_to_play
    /\ search' = <<>>
    /\ syncSinceClear' = FALSE
    /\ Render("home", None, <<>>, {}, catalog)
    /\ UIOnly
    /\ UNCHANGED << catalog, savedVars >>

\* the Back to Home button
ClickBack ==
    /\ view = "folder"
    /\ view' = "home"
    /\ current_folder' = None
    /\ video_to_play' = None
    /\ search' = <<>>
    /\ syncSinceClear' = FALSE
    /\ Render("home", None, <<>>, {}, catalog)
    /\ UIOnly
    /\ UNCHANGED << catalog, savedVars >>

\* the Play button of the card of a video of the shown list
ClickPlay(id) ==
    /\ view = "folder"
    /\ \E video_data \in shown : video_data.id = id
    /\ video_to_play' = (CHOOSE video_data \in shown : video_data.id = id).path
    /\ Render(view, current_folder, search, cache, catalog)
    /\ UIOnly
    /\ UNCHANGED << catalog, savedVars, syncSinceClear, view, current_folder,
                    search >>

\* mutant: Save without st.cache_data.clear()
ClickSaveKeepsCache(id, title, tags) ==
    /\ view = "folder"
    /\ \E video_data \in shown : video_data.id = id
    /\ lock = "none"
    /\ UICommitted(CommitTo(catalog, UpdateById(catalog, id, title, tags)))
    /\ SaveRecorded(id)
    /\ syncSinceClear' = syncSinceClear
    /\ Render(view, current_folder, search, cache, catalog')
    /\ UNCHANGED navVars

\* the Save button of the form of a video card, the write lock being free:
\* the UPDATE is committed, the cache cleared, the script run again
ClickSave(id, title, tags) ==
    /\ view = "folder"
    /\ \E video_data \in shown : video_data.id = id
    /\ lock = "none"
    /\ UICommitted(CommitTo(catalog, UpdateById(catalog, id, title, tags)))
    /\ SaveRecorded(id)
    /\ syncSinceClear' = FALSE
    /\ Render(view, current_folder, search, {}, catalog')
    /\ UNCHANGED navVars

\* the Delete button of the form of a video card, the write lock being free
ClickDelete(id) ==
    /\ view = "folder"
    /\ \E video_data \in shown : video_data.id = id
    /\ lock = "none"
    /\ UICommitted(CommitTo(catalog, DeleteById(catalog, id)))
    /\ DeleteRecorded(id)
    /\ syncSinceClear' = FALSE
    /\ Render(view, current_folder, search, {}, catalog')
    /\ UNCHANGED navVars

\* ttl=600: the cached values expire
CacheExpires ==
    /\ cache # {}
    /\ cache' = {}
    /\ UIOnly
    /\ UNCHANGED << catalog, savedVars, navVars, shown, syncSinceClear >>

\* a whole run of the indexer while the session is open
UISync ==
    /\ SyncRun
    /\ syncSinceClear' = (syncSinceClear \/ catalog' # catalog)
    /\ UNCHANGED << navVars, cache, shown >>

(***************************************************************************)
(* Specifications                                                          *)
(***************************************************************************)
Next ==
    \/ \E f \in FilesUpTo(NumFiles) : CreateFile(f)
    \/ \E f \in FilesUpTo(NumFiles) : RemoveFile(f)
    \/ RootGoes
    \/ RootReturns
    \/ \E r \in Runs : Main(r)
    \/ \E r \in Runs : Load(r)
    \/ \E r \in Runs : Scan(r)
    \/ \E r \in Runs : Insert(r)
    \/ \E r \in Runs : Delete(r)
    \/ \E r \in Runs : Summary(r)
    \/ \E r \in Runs : CommitWritten(r)
    \/ \E r \in Runs : CommitPending(r)
    \/ \E r \in Runs : CommitNothing(r)
    \/ \E r \in Runs : Abort(r)
    \/ \E r \in Runs : Restart(r)
    \/ \E id \in 1..MaxId, t \in UITitles, g \in UITags : UISave(id, t, g)
    \/ \E id \in 1..MaxId : UIDelete(id)
    \/ OtherSync

Spec == Init /\ [][Next]_vars

\* the same behaviours with the history variable provenance recorded
InitProvenance ==
    /\ disk \in SUBSET FilesUpTo(NumFiles)
    /\ rootIsDir = TRUE
    /\ faults = NoFaults
    /\ cache = {}
    /\ recording = "provenance"
    /\ Fresh

SpecProvenance == InitProvenance /\ [][Next]_vars

\* the same behaviours with the history variables lastSaved and savedInRun
\* recorded
InitSaves ==
    /\ disk \in SUBSET FilesUpTo(NumFiles)
    /\ rootIsDir = TRUE
    /\ faults = NoFaults
    /\ cache = {}
    /\ recording = "saves"
    /\ Fresh

SpecSaves == InitSaves /\ [][Next]_vars

\* scan_disk_paths() alone, on every disk the scan universe allows
InitScan ==
    /\ disk \in SUBSET FilesUpTo(NumScanFiles)
    /\ rootIsDir \in BOOLEAN
    /\ faults = NoFaults
    /\ cache = {}
    /\ recording = "none"
    /\ Fresh

ScanOnly ==
    /\ ~scanResult.done
    /\ scanResult' = [done |-> TRUE, paths |-> scan_disk_paths(disk, rootIsDir),
                       raised |-> "none"]
    /\ UNCHANGED << envVars, catalog, pc, db_paths, disk_paths, err, report,
                    txVars, histVars, faults, recording, provenance, savedVars, uiVars >>

NextScan == ScanOnly

SpecScan == InitScan /\ [][NextScan]_vars

\* scan_disk_paths() alone, with errors raised while single files are processed
InitFaults ==
    /\ disk \in SUBSET FilesUpTo(NumFaultFiles)
    /\ rootIsDir = TRUE
    /\ cache = {}
    /\ recording = "none"
    /\ Fresh
    /\ \E j \in SUBSET disk : \E rp \in SUBSET (disk \ j) :
           faults = [join |-> j, relpath |-> rp]

ScanFaulty ==
    /\ ~scanResult.done
    /\ scanResult' \in ScanOutcomes(disk, rootIsDir, faults)
    /\ UNCHANGED << envVars, catalog, pc, db_paths, disk_paths, err, report,
                    txVars, histVars, faults, recording, provenance, savedVars, uiVars >>

NextFaults == ScanFaulty

SpecFaults == InitFaults /\ [][NextFaults]_vars

\* one browser session on a catalog that the indexer syncs between events;
\* the script has run once on the table as created
InitUI ==
    /\ disk \in SUBSET FilesUpTo(NumUIFiles)
    /\ rootIsDir = TRUE
    /\ faults = NoFaults
    /\ cache = CacheStore({}, CacheKey("home", None, <<>>), {})
    /\ recording = "none"
    /\ Fresh

NextUI ==
    \/ \E f \in FilesUpTo(NumUIFiles) : CreateFile(f)
    \/ \E f \in FilesUpTo(NumUIFiles) : RemoveFile(f)
    \/ UISync
    \/ Connect
    \/ \E q \in Queries : SearchInput(q)
    \/ \E fd \in Folders : ClickOpen(fd)
    \/ ClickBack
    \/ \E id \in 1..MaxId : ClickPlay(id)
    \/ \E id \in 1..MaxId, t \in UITitles, g \in UITags : ClickSave(id, t, g)
    \/ \E id \in 1..MaxId : ClickDelete(id)
    \/ CacheExpires

SpecUI == InitUI /\ [][NextUI]_vars

(***************************************************************************)
(* Properties                                                              *)
(***************************************************************************)
Scanned(r) == pc[r] \in {"apply", "delete", "summary", "commit", "done"}

\* C1 (set-completeness): when a sync run has committed and no other writer
\* changed the catalog since the run loaded it, the paths stored in the
\* catalog are exactly the paths the run's scan returned.
C1_SetCompleteness ==
    \A r \in Runs :
        (pc[r] = "done" /\ ~interfered[r]) => Paths(catalog) = disk_paths[r]

\* a quiet run that both inserted and deleted has committed
C1_Witness ==
    \E r \in Runs :
        /\ pc[r] = "done" /\ ~interfered[r]
        /\ nIns[r] > 0 /\ nDel[r] > 0
        /\ disk_paths[r] # {}

\* C2 (missing root), as claimed: a run whose Scan found the media root not
\* to be a directory ends as a failure and has not changed the catalog.
C2_RootMissingFails ==
    \A r \in Runs :
        (rootAtScan[r] = "missing" /\ pc[r] \in {"done", "failed"})
            => (pc[r] = "failed" /\ ~changed[r])

\* C3 (idempotence): a run that follows a quiet sync of the same disk, with
\* no disk change and no other write since, finds nothing to add and nothing
\* to remove, inserts and deletes no row, reports 0 added and 0 removed and
\* leaves the committed catalog as it was.
C3_Idempotence ==
    \A r \in Runs :
        (Scanned(r) /\ second[r] /\ ~interfered[r]) =>
            /\ disk_paths[r] \ db_paths[r] = {}
            /\ db_paths[r] \ disk_paths[r] = {}
            /\ toAdd(r) = {} /\ toRemove(r) = {}
            /\ nIns[r] = 0 /\ nDel[r] = 0
            /\ ~changed[r]
            /\ pc[r] \in {"commit", "done"} =>
                  (report[r].added = 0 /\ report[r].removed = 0)

\* a second run over a non-empty catalog has completed
C3_Witness ==
    \E r \in Runs :
        pc[r] = "done" /\ second[r] /\ ~interfered[r] /\ catalog # {}

\* C4 (all-or-nothing): a step of a sync run that changes the committed
\* catalog is the run's commit, and after it every path of toAdd is in the
\* catalog and no path of toRemove is; every other step of the run, a
\* failure or an abort included, leaves the committed catalog unchanged.
C4_AllOrNothing ==
    [][ \A r \in Runs :
          (pc'[r] # pc[r] /\ catalog' # catalog) =>
              /\ pc'[r] = "done"
              /\ (disk_paths[r] \ db_paths[r]) \subseteq Paths(catalog')
              /\ (db_paths[r] \ disk_paths[r]) \cap Paths(catalog') = {} ]_vars

\* a run has committed a delta of insertions and deletions
C4_Witness ==
    \E r \in Runs : pc[r] = "done" /\ changed[r] /\ nIns[r] > 0 /\ nDel[r] > 0

\* C5 (two transactions), as claimed: a run that failed after its insert
\* step leaves its inserted records in the committed catalog.
C5_InsertSurvivesFailure ==
    \A r \in Runs :
        (pc[r] = "failed" /\ nIns[r] > 0) => toAdd(r) \subseteq Paths(catalog)

\* C5, amended: the insert step and the delete step are one transaction; as
\* long as a run that has sent its INSERTs has not committed, and after it
\* failed, the run has not changed the committed catalog and (no other
\* writer having changed it) the catalog holds none of the run's new paths.
C5_OneTransaction ==
    \A r \in Runs :
        (nIns[r] > 0 /\ pc[r] # "done") =>
            /\ ~changed[r]
            /\ ~interfered[r] => (disk_paths[r] \ db_paths[r]) \cap Paths(catalog) = {}

\* a run failed between its insert step and its commit
C5_Witness ==
    \E r \in Runs :
        pc[r] = "failed" /\ err[r] = "Aborted" /\ nIns[r] > 0 /\ ~interfered[r]

\* C6 (frame): every step of a sync run leaves each committed record whose
\* path is in both the run's disk set and its catalog set exactly as it was
\* (id, title, tags, container_folder).
C6_Frame ==
    [][ \A r \in Runs :
          pc'[r] # pc[r] =>
              \A v \in catalog :
                  v.path \in (disk_paths[r] \cap db_paths[r]) => v \in catalog' ]_vars

\* a run has changed the catalog while a record of S \cap D carried, since
\* before the run loaded the catalog, a title that is not the one derived
\* from its path
C6_Witness ==
    \E r \in Runs :
        /\ pc[r] = "done" /\ changed[r] /\ ~interfered[r]
        /\ \E v \in catalog :
              /\ v.path \in (disk_paths[r] \cap db_paths[r])
              /\ v.title # SplitRoot(BaseName(v.path))

\* C7 (uniqueness): no two committed records share a path; and a run whose
\* INSERT met a path already present has failed without changing the
\* committed catalog, with none of its deletions applied and its
\* transaction closed.
C7_Uniqueness ==
    /\ \A v, w \in catalog : v.path = w.path => v = w
    /\ \A r \in Runs :
          err[r] = "IntegrityError" =>
              /\ pc[r] = "failed"
              /\ ~changed[r]
              /\ nDel[r] = 0
              /\ lock # r

\* a run with a stale catalog set has hit the unique constraint, with more
\* than one path to insert
C7_Witness ==
    \E r \in Runs :
        /\ err[r] = "IntegrityError"
        /\ Cardinality(toAdd(r)) > 1
        /\ toAdd(r) \cap Paths(catalog) # {}

\* the flat description of an eligible file: no directory above it carries a
\* skip name, its name is no junk name, its extension is allow-listed
FlatEligible(f) ==
    LET name == f[Len(f)]
    IN  /\ \A i \in 1..(Len(f) - 1) : f[i] \notin SKIP_FOLDERS
        /\ ~(Len(name) >= 2 /\ name[1] = "." /\ name[2] = "_")
        /\ name # <<".","D","S","_","S","t","o","r","e">>
        /\ Lower(SplitExt(name)) \in VIDEO_EXTENSIONS

\* C8 (filter correctness): for every file under the media root, its
\* relative path is in the scan result exactly when no directory on its way
\* has a skip name (case-sensitively), its name is no junk name and its
\* lower-cased extension is in the allow-list.
C8_FilterCorrectness ==
    (scanResult.done /\ rootIsDir) =>
        \A f \in disk : (JoinSep(f) \in scanResult.paths) <=> FlatEligible(f)

\* a scan of a disk holding a file below a nested skip folder, a file below
\* a folder whose name differs from a skip name by case only, and a junk
\* file with an allowed extension
C8_Witness ==
    /\ scanResult.done /\ rootIsDir
    /\ Universe[3] \in disk
    /\ Universe[6] \in disk
    /\ Universe[7] \in disk
    /\ JoinSep(Universe[7]) \in scanResult.paths
    /\ JoinSep(Universe[2]) \in scanResult.paths

\* C9 (summary), as claimed: whenever a run commits, its report gives
\* added = |S - D|, removed = |D - S| and total = |S|, and the total is the
\* number of records in the catalog the commit leaves.
C9_ReportAtCommit ==
    [][ \A r \in Runs :
          (pc[r] = "commit" /\ pc'[r] = "done") =>
              /\ report[r].added = Cardinality(disk_paths[r] \ db_paths[r])
              /\ report[r].removed = Cardinality(db_paths[r] \ disk_paths[r])
              /\ report[r].total = Cardinality(disk_paths[r])
              /\ report[r].total = Cardinality(catalog') ]_vars

\* C9, amended: the same, for a run during which no other writer changed
\* the catalog between its Load and its commit.
C9_Report ==
    \A r \in Runs :
        (pc[r] = "done" /\ ~interfered[r]) =>
            /\ report[r].added = Cardinality(disk_paths[r] \ db_paths[r])
            /\ report[r].removed = Cardinality(db_paths[r] \ disk_paths[r])
            /\ report[r].total = Cardinality(disk_paths[r])
            /\ report[r].total = Cardinality(catalog)
            /\ Cardinality(db_paths[r]) + report[r].added - report[r].removed
                  = report[r].total

\* a quiet run has reported an addition and a removal
C9_Witness ==
    \E r \in Runs :
        /\ pc[r] = "done" /\ ~interfered[r]
        /\ report[r].added > 0 /\ report[r].removed > 0

\* C10 (disjointness): the sets a run computes from its disk set S and its
\* catalog set D do not intersect, and neither holds a path of S \cap D.
C10_Disjointness ==
    \A r \in Runs :
        /\ toAdd(r) \cap toRemove(r) = {}
        /\ toAdd(r) \cap (disk_paths[r] \cap db_paths[r]) = {}
        /\ toRemove(r) \cap (disk_paths[r] \cap db_paths[r]) = {}

\* a run has computed a non-empty toAdd and a non-empty toRemove
C10_Witness ==
    \E r \in Runs : pc[r] = "apply" /\ toAdd(r) # {} /\ toRemove(r) # {}

\* C11 (transaction scope), as claimed: a run that ended with an error has
\* re-raised it, has rolled back (the committed catalog is as it was, the
\* transaction is closed and the write lock released), and has printed no
\* summary ending in "Database synchronization complete."; a run that ended
\* without error has committed.
C11_TransactionScope ==
    \A r \in Runs :
        /\ pc[r] = "failed" =>
              /\ err[r] # "none"
              /\ ~changed[r]
              /\ tx[r] = {} /\ lock # r
              /\ report[r] = NoReport
        /\ pc[r] = "done" => (err[r] = "none" /\ tx[r] = {} /\ lock # r)

SyncCommits == OtherSync \/ \E r \in Runs : pc[r] = "commit" /\ pc'[r] = "done"

\* C13 (record lifecycle): in every step, a row with an id the table did not
\* hold comes from the commit of a sync run; a row that keeps its id keeps
\* its path and container_folder, and differs at all only when the step is the
\* UI's Save of that id, which leaves every other row as it is; a row whose id
\* leaves the table was removed by the UI's Delete of that id or by a sync run
\* to whose removal set its path belongs.
C13_Lifecycle ==
    [][ /\ \A w \in catalog' :
              (\A v \in catalog : v.id # w.id) => SyncCommits
        /\ \A v \in catalog : \A w \in catalog' :
              w.id = v.id =>
                  /\ w.path = v.path
                  /\ w.container_folder = v.container_folder
                  /\ w # v =>
                        /\ \E t \in UITitles, g \in UITags : UISave(v.id, t, g)
                        /\ \A u \in catalog : u.id # v.id => u \in catalog'
        /\ \A v \in catalog :
              (\A w \in catalog' : w.id # v.id) =>
                  \/ UIDelete(v.id)
                  \/ \E r \in Runs : /\ pc[r] = "commit" /\ pc'[r] = "done"
                                     /\ v.path \in toRemove(r)
                  \/ /\ OtherSync
                     /\ v.path \notin scan_disk_paths(disk, rootIsDir) ]_vars

\* two rows created by a sync run; the UI has edited the one with id 2 and
\* deleted the one with id 1, and the run followed here has committed a
\* change of its own
C13_Witness ==
    /\ pc["r1"] = "done" /\ changed["r1"]
    /\ \E v \in catalog : /\ v.id = 2
                          /\ v.title = <<"T">> /\ v.tags = <<"g">>
                          /\ v.title # SplitRoot(BaseName(v.path))
    /\ \A v \in catalog : v.id # 1

\* the rows of the next table whose id the table did not hold
NewRows == { w \in catalog' : \A v \in catalog : v.id # w.id }

\* the row claimed for the file f (its names from the media root down): the
\* path joins the names, the title is the last name up to its last dot, the
\* container joins the names of the directories, the tags are empty
DerivedFrom(w, f) ==
    LET name == f[Len(f)]
        lastDot == CHOOSE i \in 1..Len(name) :
                       name[i] = "." /\ \A j \in (i + 1)..Len(name) : name[j] # "."
    IN  /\ w.path = JoinSep(f)
        /\ w.title = SubSeq(name, 1, lastDot - 1)
        /\ w.container_folder = JoinSep(SubSeq(f, 1, Len(f) - 1))
        /\ w.tags = <<>>

\* C14 (derivation on add): the rows a committing run creates are one row
\* for each path of its toAdd and no other row, and each has the path, the
\* title (file name without extension), the container_folder (parent
\* directory relative to the media root, empty for a file of the root) and
\* the empty tags derived from its path.
C14_Derivation ==
    [][ /\ \A r \in Runs :
              (pc[r] = "commit" /\ pc'[r] = "done") =>
                  /\ Paths(NewRows) = disk_paths[r] \ db_paths[r]
                  /\ Cardinality(NewRows) = Cardinality(disk_paths[r] \ db_paths[r])
        /\ \A w \in NewRows :
              \E f \in FilesUpTo(NumFiles) : DerivedFrom(w, f) ]_vars

\* a run has committed a row for a file of a subdirectory and a row for a
\* file of the media root itself
C14_Witness ==
    /\ pc["r1"] = "done" /\ nIns["r1"] = 2
    /\ \E v \in catalog : v.path = JoinSep(Universe[1]) /\ v.container_folder = <<"A">>
    /\ \E v \in catalog : v.path = JoinSep(Universe[2]) /\ v.container_folder = <<>>

\* C15 (provenance): every path of the catalog was added by a committed sync
\* run, so it was in that run's disk set, and no sync run committed since had
\* it in its removal set.
C15_Provenance == Paths(catalog) \subseteq provenance

\* the run followed here has committed a removal and the UI has deleted a
\* row: one path is left in the catalog, and a path with provenance has no row
C15_Witness ==
    /\ pc["r1"] = "done" /\ nDel["r1"] = 1
    /\ Cardinality(catalog) = 1
    /\ provenance \ Paths(catalog) # {}

\* C16 (UI update against a sync run): once a run has ended, the row the
\* UI's latest Save wrote, at whatever point before, during or after the
\* run, is still in the catalog with its id, title and tags when its path is
\* in both the disk set and the catalog set of the run (and no other writer
\* has removed it since).
C16_UpdateSurvivesSync ==
    \A r \in Runs :
        ( /\ pc[r] \in {"done", "failed"}
          /\ lastSaved # NoRow
          /\ lastSaved.path \in (disk_paths[r] \cap db_paths[r]) )
        => lastSaved \in catalog

\* the UI's Save of a row whose path is in S \cap D of a run was committed
\* between the run's Load and its commit, and the run has committed the
\* removal of another row
C16_Witness ==
    /\ pc["r1"] = "done" /\ changed["r1"] /\ savedInRun["r1"] /\ nDel["r1"] = 1
    /\ lastSaved # NoRow
    /\ lastSaved \in catalog
    /\ lastSaved.path \in (disk_paths["r1"] \cap db_paths["r1"])
    /\ lastSaved.title = <<"T">>

\* C17 (navigation state): view is "home" or "folder"; on home,
\* current_folder and video_to_play are None; in a folder, current_folder is
\* not None; a step that changes the view or the folder leaves video_to_play
\* None; and video_to_play gets a value only by Play, in the folder view,
\* from a video of the shown list.
C17_Navigation ==
    /\ [](/\ view \in {"home", "folder"}
          /\ view = "home" => (current_folder = None /\ video_to_play = None)
          /\ view = "folder" => current_folder # None)
    /\ [][ /\ (view' # view \/ current_folder' # current_folder)
                => video_to_play' = None
           /\ (video_to_play' # video_to_play /\ video_to_play' # None)
                => /\ view = "folder" /\ view' = "folder"
                   /\ current_folder' = current_folder
                   /\ \E id \in 1..MaxId : ClickPlay(id) ]_vars

\* a video of the media root's own folder (the empty folder name) is playing
C17_Witness ==
    /\ view = "folder"
    /\ current_folder = <<>>
    /\ video_to_play = JoinSep(Universe[2])

\* C18 (cache freshness): as long as no sync run has changed the table since
\* the UI last cleared the cache, the list on the page and every cached
\* value equal the result of their query on the current table.
C18_CacheFresh ==
    ~syncSinceClear =>
        /\ shown = RunQuery(CacheKey(view, current_folder, search), catalog)
        /\ \A e \in cache : e.value = RunQuery(e.key, catalog)

\* after a Save, the folder's list shows the saved title under a search
\* text that only the saved title matches, with more than one value cached
C18_Witness ==
    /\ ~syncSinceClear
    /\ view = "folder" /\ search = <<"t">>
    /\ \E vd \in shown : vd.title = <<"T">>
    /\ Cardinality(cache) >= 2

====
